---- MODULE Spec2Model ----
(***************************************************************************)
(* Model of app.py, the DWLR groundwater dashboard.  The script is rerun   *)
(* from top to bottom on every render (Streamlit); the data frame is       *)
(* loaded once and cached.  One render: select station -> filter ->        *)
(* latest level -> threshold branch -> (email, sms) -> charts/forecast.    *)
(*                                                                         *)
(* Water levels are exact binary fractions: a level is an integer number   *)
(* of 1/Scale metres, so that the float comparisons and the ".2f"          *)
(* formatting (round-half-even on the exact value) are computed exactly.   *)
(***************************************************************************)
EXTENDS Integers, Sequences, FiniteSets, TLC

\* ------------------------------------------------------------------ bounds
MaxRows == 2
MaxRenders == 2
MaxTime == 2
MaxLevel == 176

\* --------------------------------------------------------- program values
Scale == 16
NaN == -1
LOW_THRESHOLD == 2 * Scale
HIGH_THRESHOLD == 10 * Scale

NoStation == "None"
StationIds == {"S1", "S2"}
Times == 1..MaxTime
\* levels of the multi-row data sets: 1.5 (low) and 5.0 (normal)
FewLevels == {(3 * Scale) \div 2, 5 * Scale}
\* levels of the single-row data sets: every 1/Scale step from 0 to MaxLevel
AllLevels == (0..MaxLevel) \cup {NaN}
\* HTTP status codes the gateway may answer with
StatusCodes == {200, 201, 500}

VARIABLES df, selected_station, pc, latest_level, state, alert_message,
          ui, emailCalls, emailSteps, smsCalls, smsPosts, log, err,
          renders, hist

vars == <<df, selected_station, pc, latest_level, state, alert_message,
          ui, emailCalls, emailSteps, smsCalls, smsPosts, log, err,
          renders, hist>>

\* ------------------------------------------------------------ data frame
Reading(s, t, v) == [station_id |-> s, datetime |-> t, water_level |-> v]

RECURSIVE SelectRows(_, _)
SelectRows(d, s) ==
    IF d = <<>> THEN <<>>
    ELSE IF Head(d).station_id = s
         THEN <<Head(d)>> \o SelectRows(Tail(d), s)
         ELSE SelectRows(Tail(d), s)

\* df[df["station_id"] == selected_station]
filtered_df == SelectRows(df, selected_station)

RECURSIVE UniqueFrom(_, _)
UniqueFrom(d, seen) ==
    IF d = <<>> THEN <<>>
    ELSE IF Head(d).station_id \in seen
         THEN UniqueFrom(Tail(d), seen)
         ELSE <<Head(d).station_id>> \o
              UniqueFrom(Tail(d), seen \cup {Head(d).station_id})

\* df["station_id"].unique(): first-appearance order
stations == UniqueFrom(df, {})

\* st.selectbox: the options, or None when there are none
SelectboxChoices ==
    IF stations = <<>> THEN {NoStation}
    ELSE {stations[i] : i \in 1..Len(stations)}

SelectboxDefault == IF stations = <<>> THEN NoStation ELSE stations[1]

\* sort_values("datetime"): the orders an unstable sort may produce
sort_values(rows) ==
    LET n == Len(rows)
        perms == {p \in [1..n -> 1..n] : \A i, j \in 1..n : i # j => p[i] # p[j]}
    IN  {[i \in 1..n |-> rows[p[i]]] : p \in
           {q \in perms : \A i \in 1..n, j \in 1..n :
                i < j => rows[q[i]].datetime <= rows[q[j]].datetime}}

\* .iloc[-1]["water_level"]
LastLevel(rows) == rows[Len(rows)].water_level

\* ------------------------------------------------------------- thresholds
lt(a, b) == a # NaN /\ b # NaN /\ a < b
gt(a, b) == a # NaN /\ b # NaN /\ a > b

\* variant: the thresholds themselves count as out of range
evaluate_Inclusive(level) ==
    IF level # NaN /\ level <= LOW_THRESHOLD THEN "LOW"
    ELSE IF level # NaN /\ level >= HIGH_THRESHOLD THEN "HIGH"
    ELSE "NORMAL"

\* variant: debounce, the first evaluation of a session never alerts
evaluate_Debounce(level) ==
    IF hist = <<>> THEN "NORMAL"
    ELSE IF lt(level, LOW_THRESHOLD) THEN "LOW"
    ELSE IF gt(level, HIGH_THRESHOLD) THEN "HIGH"
    ELSE "NORMAL"

evaluate(level) ==
    IF lt(level, LOW_THRESHOLD) THEN "LOW"
    ELSE IF gt(level, HIGH_THRESHOLD) THEN "HIGH"
    ELSE "NORMAL"

\* ------------------------------------------------------- f"{level:.2f}"
DigitChar(d) == <<"0", "1", "2", "3", "4", "5", "6", "7", "8", "9">>[d + 1]

RECURSIVE IntChars(_)
IntChars(n) ==
    IF n < 10 THEN <<DigitChar(n)>>
    ELSE IntChars(n \div 10) \o <<DigitChar(n % 10)>>

\* hundredths nearest to level/Scale, ties to even
Hundredths(level) ==
    LET n == level * 100
        q == n \div Scale
        r == n % Scale
    IN  IF 2 * r < Scale THEN q
        ELSE IF 2 * r > Scale THEN q + 1
        ELSE IF q % 2 = 0 THEN q ELSE q + 1

\* variant: f"{level:.1f}"
FormatLevel_OneDecimal(level) ==
    IF level = NaN THEN <<"n", "a", "n">>
    ELSE LET n == level * 10
             q == n \div Scale
             r == n % Scale
             t == IF 2 * r < Scale THEN q
                  ELSE IF 2 * r > Scale THEN q + 1
                  ELSE IF q % 2 = 0 THEN q ELSE q + 1
         IN  IntChars(t \div 10) \o <<".">> \o <<DigitChar(t % 10)>>

FormatLevel(level) ==
    IF level = NaN THEN <<"n", "a", "n">>
    ELSE LET h == Hundredths(level)
         IN  IntChars(h \div 100) \o <<".">> \o
             <<DigitChar((h % 100) \div 10), DigitChar(h % 10)>>

LowText == "ALERT: Water level critically LOW ("
HighText == "ALERT: Water level unusually HIGH ("
NormalText == "Water level is Normal ("

AlertMessage(st, level) ==
    <<IF st = "LOW" THEN LowText ELSE HighText>> \o FormatLevel(level) \o <<" m)">>

\* ------------------------------------------------------------------ init
Rows(levels) == {Reading(s, t, v) : s \in StationIds, t \in Times, v \in levels}

DataSets ==
    UNION {[1..n -> Rows(FewLevels)] : n \in 0..MaxRows}
    \cup {<<Reading("S1", 1, v)>> : v \in AllLevels}

Init ==
    /\ df \in DataSets
    /\ selected_station = SelectboxDefault
    /\ pc = "latest"
    /\ latest_level = NaN
    /\ state = "none"
    /\ alert_message = <<>>
    /\ ui = <<>>
    /\ emailCalls = <<>>
    /\ emailSteps = <<>>
    /\ smsCalls = <<>>
    /\ smsPosts = <<>>
    /\ log = <<>>
    /\ err = "none"
    /\ renders = 1
    /\ hist = <<>>

\* ------------------------------------------------ latest_level (line 75)
\* filtered_df.sort_values("datetime").iloc[-1]["water_level"]:
\* IndexError on an empty frame, else the last row of a sorted order
\* variant: an empty frame yields level 0 instead of raising
LatestResults_EmptyDefault(rows) ==
    IF rows = <<>>
    THEN {[ok |-> TRUE, level |-> 0, err |-> "none"]}
    ELSE {[ok |-> TRUE, level |-> LastLevel(s), err |-> "none"] :
             s \in sort_values(rows)}

\* variant: the sort is missing, the last row in file order is taken
LatestResults_NoSort(rows) ==
    IF rows = <<>>
    THEN {[ok |-> FALSE, level |-> NaN, err |-> "IndexError"]}
    ELSE {[ok |-> TRUE, level |-> LastLevel(rows), err |-> "none"]}

LatestResults(rows) ==
    IF rows = <<>>
    THEN {[ok |-> FALSE, level |-> NaN, err |-> "IndexError"]}
    ELSE {[ok |-> TRUE, level |-> LastLevel(s), err |-> "none"] :
             s \in sort_values(rows)}

ComputeLatest ==
    /\ pc = "latest"
    /\ \E r \in LatestResults(filtered_df) :
          /\ latest_level' = r.level
          /\ err' = r.err
          /\ pc' = IF r.ok THEN "branch" ELSE "error"
    /\ UNCHANGED <<df, selected_station, state, alert_message, ui, emailCalls,
                   emailSteps, smsCalls, smsPosts, log, renders, hist>>

\* ------------------------------------------- Alerts System (lines 80-93)
\* the branches that build a message and call both send functions
\* variant: the else branch notifies as well
Notifies_Always(st) == st \in {"LOW", "HIGH", "NORMAL"}

Notifies(st) == st \in {"LOW", "HIGH"}

HistEntry(lvl, st, calls, steps, sms, posts) ==
    [level |-> lvl, state |-> st, email |-> Len(calls), sms |-> Len(sms),
     failed |-> \/ \E i \in 1..Len(steps) : ~steps[i].ok
                \/ \E i \in 1..Len(posts) : posts[i].raised \/ posts[i].status # 200]

AlertsBranch ==
    /\ pc = "branch"
    /\ state' = evaluate(latest_level)
    /\ IF Notifies(state')
       THEN /\ alert_message' = AlertMessage(state', latest_level)
            /\ ui' = <<[kind |-> IF state' = "LOW" THEN "error" ELSE "warning",
                        msg |-> alert_message']>>
            \* send_email_alert(alert_message) is entered
            /\ emailCalls' = Append(emailCalls, alert_message')
            /\ pc' = "connect"
            /\ hist' = hist
       ELSE /\ ui' = <<[kind |-> "success",
                        msg |-> <<NormalText>> \o FormatLevel(latest_level) \o <<" m)">>]>>
            /\ pc' = "rest"
            /\ hist' = Append(hist, HistEntry(latest_level, state', emailCalls,
                                              emailSteps, smsCalls, smsPosts))
            /\ UNCHANGED <<alert_message, emailCalls>>
    /\ UNCHANGED <<df, selected_station, latest_level, emailSteps, smsCalls,
                   smsPosts, log, err, renders>>

\* ------------------------------------------ send_email_alert (lines 40-47)
EmailPcs == {"connect", "starttls", "login", "sendmail", "quit"}

\* where control goes after a transport step that succeeded or raised
\* variant: a refused connection is tried once more
EmailNext_RetryConnect(step, ok) ==
    IF step = "connect"
    THEN (IF ok THEN "starttls" ELSE IF Len(emailSteps) < 1 THEN "connect" ELSE "sms")
    ELSE IF step = "quit" THEN "sms"
    ELSE IF ~ok THEN "quit"
    ELSE IF step = "starttls" THEN "login"
    ELSE IF step = "login" THEN "sendmail"
    ELSE "quit"

\* variant: login is issued before starttls
EmailNext_LoginFirst(step, ok) ==
    IF step = "connect" THEN (IF ok THEN "login" ELSE "sms")
    ELSE IF step = "quit" THEN "sms"
    ELSE IF ~ok THEN "quit"
    ELSE IF step = "login" THEN "starttls"
    ELSE IF step = "starttls" THEN "sendmail"
    ELSE "quit"

EmailNext(step, ok) ==
    IF step = "connect" THEN (IF ok THEN "starttls" ELSE "sms")
    ELSE IF step = "quit" THEN "sms"
    ELSE IF ~ok THEN "quit"
    ELSE IF step = "starttls" THEN "login"
    ELSE IF step = "login" THEN "sendmail"
    ELSE "quit"

\* the line printed when the try statement is left, if it is left
EmailLogLine(steps) ==
    IF \A i \in 1..Len(steps) : steps[i].ok
    THEN "Email sent successfully" ELSE "Email failed"

EmailStep ==
    /\ pc \in EmailPcs
    /\ \E ok \in BOOLEAN :
          /\ emailSteps' = Append(emailSteps, [step |-> pc, ok |-> ok])
          /\ pc' = EmailNext(pc, ok)
          /\ log' = IF pc' \in EmailPcs THEN log
                    ELSE Append(log, EmailLogLine(emailSteps'))
    /\ UNCHANGED <<df, selected_station, latest_level, state, alert_message, ui,
                   emailCalls, smsCalls, smsPosts, err, renders, hist>>

\* -------------------------------------------- send_sms_alert (lines 50-70)
SmsResponses ==
    {[raised |-> FALSE, status |-> c] : c \in StatusCodes}
    \cup {[raised |-> TRUE, status |-> 0]}

\* variant: any response counts as delivered
SmsLogLine_AnyResponse(r) ==
    IF r.raised THEN "Error sending SMS"
    ELSE "SMS sent successfully"

SmsLogLine(r) ==
    IF r.raised THEN "Error sending SMS"
    ELSE IF r.status = 200 THEN "SMS sent successfully"
    ELSE "SMS failed"

\* variant: the except clause is missing, a transport exception escapes
SmsPost_Propagate ==
    /\ pc = "sms"
    /\ \E r \in SmsResponses :
          /\ smsCalls' = Append(smsCalls, alert_message)
          /\ smsPosts' = Append(smsPosts, r)
          /\ log' = IF r.raised THEN log ELSE Append(log, SmsLogLine(r))
          /\ pc' = IF r.raised THEN "error" ELSE "rest"
          /\ err' = IF r.raised THEN "RequestException" ELSE err
          /\ hist' = Append(hist, HistEntry(latest_level, state, emailCalls,
                                            emailSteps, smsCalls', smsPosts'))
    /\ UNCHANGED <<df, selected_station, latest_level, state, alert_message, ui,
                   emailCalls, emailSteps, renders>>

SmsPost ==
    /\ pc = "sms"
    /\ \E r \in SmsResponses :
          /\ smsCalls' = Append(smsCalls, alert_message)
          /\ smsPosts' = Append(smsPosts, r)
          /\ log' = Append(log, SmsLogLine(r))
          /\ pc' = "rest"
          /\ err' = err
          /\ hist' = Append(hist, HistEntry(latest_level, state, emailCalls,
                                            emailSteps, smsCalls', smsPosts'))
    /\ UNCHANGED <<df, selected_station, latest_level, state, alert_message, ui,
                   emailCalls, emailSteps, renders>>

\* ------------------------- charts, map, statistics, forecast, download
\* (lines 95-165): library calls that complete or raise
Rest ==
    /\ pc = "rest"
    /\ \E ok \in BOOLEAN :
          /\ pc' = IF ok THEN "done" ELSE "error"
          /\ err' = IF ok THEN err ELSE "RenderError"
    /\ UNCHANGED <<df, selected_station, latest_level, state, alert_message, ui,
                   emailCalls, emailSteps, smsCalls, smsPosts, log, renders, hist>>

\* -------------------- the user picks a station: the script runs again
Rerun ==
    /\ pc \in {"done", "error"}
    /\ renders < MaxRenders
    /\ \E s \in SelectboxChoices : selected_station' = s
    /\ pc' = "latest"
    /\ latest_level' = NaN
    /\ state' = "none"
    /\ alert_message' = <<>>
    /\ ui' = <<>>
    /\ emailCalls' = <<>>
    /\ emailSteps' = <<>>
    /\ smsCalls' = <<>>
    /\ smsPosts' = <<>>
    /\ log' = <<>>
    /\ err' = "none"
    /\ renders' = renders + 1
    /\ UNCHANGED <<df, hist>>

Next ==
    \/ ComputeLatest
    \/ AlertsBranch
    \/ EmailStep
    \/ SmsPost
    \/ Rest
    \/ Rerun

Spec == Init /\ [][Next]_vars

\* =================================================================
\* Properties
\* =================================================================
Alerting == state \in {"LOW", "HIGH"}

\* the render has left the alert section (line 93 is behind it)
AfterAlerts == pc \in {"rest", "done"} \/ (pc = "error" /\ err = "RenderError")

Lines(q) == {q[i] : i \in 1..Len(q)}

DigitVal(c) == CHOOSE d \in 0..9 : DigitChar(d) = c

IsDigit(c) == \E d \in 0..9 : DigitChar(d) = c

RECURSIVE CharsVal(_)
CharsVal(q) ==
    IF q = <<>> THEN 0
    ELSE 10 * CharsVal(SubSeq(q, 1, Len(q) - 1)) + DigitVal(q[Len(q)])

\* q reads as a decimal number with exactly two digits after the point,
\* and no number with two decimals is nearer to level/Scale
TwoDecimalsOf(q, level) ==
    /\ Len(q) >= 4
    /\ q[Len(q) - 2] = "."
    /\ \A i \in 1..Len(q) : i # Len(q) - 2 => IsDigit(q[i])
    /\ LET h == 100 * CharsVal(SubSeq(q, 1, Len(q) - 3))
                + 10 * DigitVal(q[Len(q) - 1]) + DigitVal(q[Len(q)])
           d == h * Scale - level * 100
       IN  2 * d <= Scale /\ 2 * d >= -Scale

\* C1: the classification is LOW below 2.0, HIGH above 10.0 and NORMAL
\* otherwise; exactly 2.0 and exactly 10.0 are NORMAL; one of the three
\* states is always chosen.
C1_Classification ==
    state # "none" =>
       /\ state \in {"LOW", "HIGH", "NORMAL"}
       /\ (latest_level # NaN /\ latest_level < 2 * Scale) => state = "LOW"
       /\ (latest_level # NaN /\ latest_level > 10 * Scale) => state = "HIGH"
       /\ (latest_level = NaN \/
           (latest_level >= 2 * Scale /\ latest_level <= 10 * Scale))
             => state = "NORMAL"

C1_Witness == state = "NORMAL" /\ latest_level = 2 * Scale /\ pc = "done"

\* C2: in a render classified LOW or HIGH, send_email and send_sms are each
\* called exactly once with the same message, the one built for this
\* evaluation, which names the condition and carries the level with two
\* decimals.
C2_BothChannelsOnce ==
    /\ Len(emailCalls) <= 1 /\ Len(smsCalls) <= 1
    /\ (AfterAlerts /\ Alerting) =>
          /\ Len(emailCalls) = 1 /\ Len(smsCalls) = 1
          /\ emailCalls[1] = smsCalls[1]
          /\ emailCalls[1] = alert_message
          /\ LET m == alert_message
             IN  /\ Len(m) >= 3
                 /\ m[1] = (IF state = "LOW" THEN LowText ELSE HighText)
                 /\ m[Len(m)] = " m)"
                 /\ TwoDecimalsOf(SubSeq(m, 2, Len(m) - 1), latest_level)

C2_Witness ==
    /\ pc = "done" /\ state = "HIGH"
    /\ smsCalls = << <<HighText, "1", "1", ".", "0", "0", " m)">> >>
    /\ emailCalls = smsCalls

\* C3: in a render classified NORMAL neither channel is invoked: no email
\* connection is opened and no SMS request is issued.
C3_NormalSilent ==
    state = "NORMAL" =>
       /\ emailCalls = <<>> /\ emailSteps = <<>>
       /\ smsCalls = <<>> /\ smsPosts = <<>>
       /\ log = <<>>
       /\ pc \notin EmailPcs \cup {"sms"}

C3_Witness == state = "NORMAL" /\ pc = "done" /\ latest_level = 10 * Scale

\* C4: whatever the outcome of the email steps and of the SMS request, both
\* channels are attempted, no delivery failure leaves its channel, and the
\* render goes on to the steps after the alert section.
C4_FailuresContained ==
    /\ (pc = "error" => err \in {"IndexError", "RenderError"})
    /\ (Alerting /\ log # <<>>) => pc \in {"sms", "rest", "done", "error"}
    /\ (Alerting /\ smsPosts # <<>>) => AfterAlerts
    /\ (Alerting /\ AfterAlerts) =>
          /\ emailSteps # <<>> /\ emailSteps[1].step = "connect"
          /\ Len(smsPosts) = 1

C4_Witness ==
    /\ pc = "done"
    /\ emailSteps = <<[step |-> "connect", ok |-> TRUE],
                      [step |-> "starttls", ok |-> TRUE],
                      [step |-> "login", ok |-> FALSE],
                      [step |-> "quit", ok |-> TRUE]>>
    /\ smsPosts = <<[raised |-> TRUE, status |-> 0]>>

\* C5 as stated: a station without readings fails with EmptySeriesError,
\* the error reaches the caller and nothing is sent.
C5_EmptySeriesError ==
    (filtered_df = <<>> /\ pc # "latest") =>
       /\ pc = "error" /\ err = "EmptySeriesError"
       /\ emailCalls = <<>> /\ smsCalls = <<>>

\* C5 amended: a station without readings fails with IndexError at the
\* latest-level lookup, the render stops there with the error uncaught and
\* nothing is sent.
C5_EmptyIndexError ==
    (filtered_df = <<>> /\ pc # "latest") =>
       /\ pc = "error" /\ err = "IndexError"
       /\ state = "none"
       /\ emailCalls = <<>> /\ emailSteps = <<>>
       /\ smsCalls = <<>> /\ smsPosts = <<>>

C5_Witness == filtered_df = <<>> /\ pc = "error" /\ renders = 2

Scenario == <<Reading("S1", 1, 5 * Scale), Reading("S1", 2, (3 * Scale) \div 2)>>

LevelTaken == pc # "latest" /\ ~(pc = "error" /\ err = "IndexError")

\* C6: the classified level is the water_level of a reading of the selected
\* station with maximal datetime among that station's readings, whatever
\* the other stations hold and whatever the row order; the scenario
\* [(t1, 5.0), (t2, 1.5)] ends LOW with "1.50" sent once on both channels.
C6_LatestReading ==
    /\ LevelTaken =>
          \E i \in 1..Len(df) :
             /\ df[i].station_id = selected_station
             /\ df[i].water_level = latest_level
             /\ \A j \in 1..Len(df) :
                   df[j].station_id = selected_station
                      => df[j].datetime <= df[i].datetime
    /\ (df = Scenario /\ AfterAlerts) =>
          /\ state = "LOW"
          /\ emailCalls = << <<LowText, "1", ".", "5", "0", " m)">> >>
          /\ smsCalls = emailCalls

\* the newest reading of the selected station is the first row of the file
C6_Witness ==
    /\ pc = "done" /\ Len(df) = 2 /\ selected_station = "S1"
    /\ df[1] = Reading("S1", 2, (3 * Scale) \div 2)
    /\ df[2].station_id = "S1" /\ df[2].datetime = 1
    /\ df[2].water_level = 5 * Scale
    /\ latest_level = (3 * Scale) \div 2 /\ state = "LOW"

\* C7: send_sms issues one POST; success is printed exactly when the
\* response status is 200, every other status and every exception is
\* printed as a failure, and control returns to the caller.
C7_SmsSuccessIff200 ==
    smsCalls # <<>> =>
       /\ Len(smsPosts) = 1
       /\ ("SMS sent successfully" \in Lines(log))
             <=> (~smsPosts[1].raised /\ smsPosts[1].status = 200)
       /\ (smsPosts[1].raised \/ smsPosts[1].status # 200)
             => (Lines(log) \cap {"SMS failed", "Error sending SMS"} # {})
       /\ AfterAlerts

C7_Witness ==
    /\ smsPosts = <<[raised |-> FALSE, status |-> 201]>>
    /\ "SMS failed" \in Lines(log) /\ pc = "done"

\* C8: no retries: within one render each channel is entered at most once,
\* each transport step is attempted at most once and at most one POST is
\* issued, also after a failure.
C8_NoRetries ==
    /\ Len(emailCalls) <= 1
    /\ Len(smsCalls) <= 1
    /\ Len(smsPosts) <= 1
    /\ \A i, j \in 1..Len(emailSteps) :
          emailSteps[i].step = emailSteps[j].step => i = j

C8_Witness ==
    /\ pc = "done"
    /\ emailSteps = <<[step |-> "connect", ok |-> FALSE]>>
    /\ smsPosts = <<[raised |-> FALSE, status |-> 500]>>

\* C9: over all renders so far, equal levels were classified equally
\* whatever happened in earlier renders, and every render classified LOW or
\* HIGH called both channels again.
C9_Stateless ==
    /\ \A i, j \in 1..Len(hist) :
          hist[i].level = hist[j].level => hist[i].state = hist[j].state
    /\ \A i \in 1..Len(hist) :
          hist[i].state \in {"LOW", "HIGH"} => hist[i].email = 1 /\ hist[i].sms = 1

C9_Witness ==
    /\ Len(hist) = 2
    /\ hist[1].level = hist[2].level
    /\ hist[1].state = "LOW" /\ hist[1].failed
    /\ hist[2].state = "LOW" /\ hist[2].email = 1 /\ hist[2].sms = 1

\* C10: the email steps run in the order connect, STARTTLS, login,
\* sendmail; login needs an earlier successful STARTTLS, sendmail an
\* earlier successful login, a failed step is followed by none of the
\* remaining ones, and success is printed only if all of them succeeded.
C10_EmailOrder ==
    LET q == emailSteps
        Done(i, name) == i <= Len(q) /\ q[i].step = name /\ q[i].ok
    IN  /\ q # <<>> => q[1].step = "connect"
        /\ \A i \in 1..Len(q) :
              /\ q[i].step = "starttls" => i = 2 /\ Done(1, "connect")
              /\ q[i].step = "login" => i = 3 /\ Done(2, "starttls")
              /\ q[i].step = "sendmail" => i = 4 /\ Done(3, "login")
              /\ ~q[i].ok =>
                    \A j \in (i + 1)..Len(q) :
                       q[j].step \notin {"starttls", "login", "sendmail"}
        /\ "Email sent successfully" \in Lines(log) =>
              /\ Done(1, "connect") /\ Done(2, "starttls")
              /\ Done(3, "login") /\ Done(4, "sendmail")

C10_Witness ==
    /\ emailSteps = <<[step |-> "connect", ok |-> TRUE],
                      [step |-> "starttls", ok |-> FALSE],
                      [step |-> "quit", ok |-> TRUE]>>
    /\ log = <<"Email failed">> /\ pc = "sms"

====
